---- MODULE Spec2Model ----
(***************************************************************************)
(* Model of monitor_script.py: the state-diff change-detection engine.     *)
(* A run loads the state document, runs the enabled checkers in a fixed    *)
(* order (sitemap, key pages, assets, repositories, feeds), saves the      *)
(* document and emits outputs.  External capabilities (HTTP fetch, HTML    *)
(* and XML parsing, the GitHub client, the feed parser) are the            *)
(* environment: their results are chosen nondeterministically.             *)
(***************************************************************************)
EXTENDS Integers, Sequences, FiniteSets, TLC

(***************************************************************************)
(* Bounds of the model.                                                    *)
(***************************************************************************)
\* number of consecutive runs of the script against one state file
MaxRuns == 2
\* number of distinct checkers the configurations of one behaviour enable
MaxCheckers == 2
\* number of sources (sitemap entry, pages, repositories, feeds) that one
\* configuration names
MaxSources == 2
\* number of fetches of one sitemap document that one run counts
MaxFetches == 2
\* length of the lists given to format_output_list
MaxItems == 102
\* length of the paths of the URLs given to normalize_url
MaxPathLen == 4

(***************************************************************************)
(* Python values.                                                          *)
(***************************************************************************)
\* A Python str whose characters matter is a sequence of one-character
\* strings, a list is a sequence and a dict is a function.  None is the empty
\* sequence: every value the code compares with None (a digest, a commit
\* identifier, an entry identifier, a configured list) is a non-empty
\* sequence, and a configuration value of None, "" or [] is falsy alike.
None == <<>>

\* dict.get(k, default), dict[k] = v and the empty dict {}
Get(d, k, default) == IF k \in DOMAIN d THEN d[k] ELSE default

Put(d, k, v) == [x \in (DOMAIN d) \cup {k} |-> IF x = k THEN v ELSE d[x]]

EmptyDict == [x \in {} |-> None]

\* truthiness of a configuration value: None, "" and [] are falsy
Truthy(v) == v # None /\ v # <<>>

\* ord() of the characters of the model (Unicode code points)
Ord(c) ==
  CASE c = " " -> 32 [] c = "#" -> 35 [] c = "/" -> 47 [] c = ":" -> 58
    [] c = "?" -> 63 [] c = "a" -> 97 [] c = "b" -> 98 [] c = "f" -> 102
    [] c = "h" -> 104 [] c = "q" -> 113 [] c = "x" -> 120

\* s < t for Python str: lexicographic by code point
RECURSIVE StrLess(_, _)
StrLess(s, t) ==
  IF t = <<>> THEN FALSE
  ELSE IF s = <<>> THEN TRUE
  ELSE IF Ord(Head(s)) < Ord(Head(t)) THEN TRUE
  ELSE IF Ord(Head(s)) > Ord(Head(t)) THEN FALSE
  ELSE StrLess(Tail(s), Tail(t))

\* sorted(list(S)) for a set S of str
RECURSIVE SortedList(_)
SortedList(S) ==
  IF S = {} THEN <<>>
  ELSE LET m == CHOOSE x \in S : \A y \in S \ {x} : StrLess(x, y)
       IN <<m>> \o SortedList(S \ {m})

\* set(l) for a list l
ToSet(l) == {l[i] : i \in 1..Len(l)}

\* index of the first occurrence in s of a character of cs, Len(s)+1 if none
RECURSIVE FindFirst(_, _, _)
FindFirst(s, cs, i) ==
  IF i > Len(s) THEN Len(s) + 1
  ELSE IF s[i] \in cs THEN i
  ELSE FindFirst(s, cs, i + 1)

\* s[i-1:j-1] of Python, with 1-based inclusive bounds i..j
Slice(s, i, j) == IF i > j THEN <<>> ELSE SubSeq(s, i, j)

\* str.strip(): leading and trailing whitespace removed
RECURSIVE LStrip(_)
LStrip(s) == IF s # <<>> /\ Head(s) = " " THEN LStrip(Tail(s)) ELSE s

RECURSIVE RStripChar(_, _)
RStripChar(s, c) ==
  IF s # <<>> /\ s[Len(s)] = c THEN RStripChar(SubSeq(s, 1, Len(s) - 1), c) ELSE s

Strip(s) == RStripChar(LStrip(s), " ")

(***************************************************************************)
(* urllib.parse.urlparse and normalize_url.                                *)
(***************************************************************************)
\* urlparse(url): the fragment is split at the first "#", the query at the
\* first "?", the scheme ends at the first ":" and the netloc, introduced by
\* "//", ends at the first "/" (the "?" and "#" are already split off).
SplitNetloc(scheme, rest, qry, frag, e) ==
  IF Len(rest) >= 2 /\ rest[1] = "/" /\ rest[2] = "/"
    THEN [scheme |-> scheme, netloc |-> Slice(rest, 3, e - 1),
          path |-> Slice(rest, e, Len(rest)), query |-> qry, fragment |-> frag]
    ELSE [scheme |-> scheme, netloc |-> <<>>, path |-> rest,
          query |-> qry, fragment |-> frag]

SplitScheme(noq, qry, frag, c) ==
  IF c <= Len(noq) /\ c > 1 /\ \A i \in 1..(c - 1) : noq[i] \notin {"/", " "}
    THEN SplitNetloc(Slice(noq, 1, c - 1), Slice(noq, c + 1, Len(noq)), qry, frag,
                     FindFirst(Slice(noq, c + 1, Len(noq)), {"/"}, 3))
    ELSE SplitNetloc(<<>>, noq, qry, frag, FindFirst(noq, {"/"}, 3))

SplitQuery(nofr, frag, q) ==
  SplitScheme(Slice(nofr, 1, q - 1), Slice(nofr, q + 1, Len(nofr)), frag,
              FindFirst(Slice(nofr, 1, q - 1), {":"}, 1))

SplitFragment(url, h) ==
  SplitQuery(Slice(url, 1, h - 1), Slice(url, h + 1, Len(url)),
             FindFirst(Slice(url, 1, h - 1), {"?"}, 1))

urlparse(url) == SplitFragment(url, FindFirst(url, {"#"}, 1))

\* f"{parsed.scheme}://{parsed.netloc}{path}" with the path stripped of its
\* trailing "/" characters unless it is "/"
Rebuild(parsed) ==
  parsed.scheme \o <<":", "/", "/">> \o parsed.netloc
    \o (IF parsed.path # <<"/">> THEN RStripChar(parsed.path, "/") ELSE <<"/">>)

normalize_url(url) == Rebuild(urlparse(url))

(***************************************************************************)
(* format_output_list.                                                     *)
(***************************************************************************)
\* str(item).replace('\n', ' ').replace('\r', '') on the characters of an item
RECURSIVE CleanItem(_)
CleanItem(item) ==
  IF item = <<>> THEN <<>>
  ELSE IF Head(item) = "\n" THEN <<" ">> \o CleanItem(Tail(item))
  ELSE IF Head(item) = "\r" THEN CleanItem(Tail(item))
  ELSE <<Head(item)>> \o CleanItem(Tail(item))

\* "\\n".join(cleaned[lo-1:hi]): the separator, a backslash and an n, is one
\* element; the list is joined by halves
RECURSIVE Join(_, _, _)
Join(cleaned, lo, hi) ==
  IF lo = hi THEN cleaned[lo]
  ELSE Join(cleaned, lo, (lo + hi) \div 2) \o <<"\\n">>
         \o Join(cleaned, (lo + hi) \div 2 + 1, hi)

\* format_output_list: "" for no items, else the cleaned items joined
format_output_list(items) ==
  IF items = <<>> THEN <<>>
  ELSE Join([i \in 1..Len(items) |-> CleanItem(items[i])], 1, Len(items))

(***************************************************************************)
(* The environment: what the external capabilities can answer.             *)
(***************************************************************************)
\* sitemap document URLs
S0 == <<"x", "0">>
S1 == <<"x", "1">>
S2 == <<"x", "2">>
SitemapDocs == {S0, S1, S2}

\* page locations as they appear in <loc> elements
LocA      == <<"h", ":", "/", "/", "x", "/", "a">>
LocASlash == <<"h", ":", "/", "/", "x", "/", "a", "/">>
LocBQuery == <<" ", "h", ":", "/", "/", "x", "/", "b", "?", "q">>
LocRoot   == <<"h", ":", "/", "/", "x", "/">>

\* normalize_url(loc.text.strip()) for each of them
LocTexts == {LocA, LocASlash, LocBQuery, LocRoot}
NormalizedLoc == [l \in LocTexts |-> normalize_url(Strip(l))]

\* fetch_url returns None on a transport error, an error status or (for
\* XML) a content type that is not XML
NoResponse == [failed |-> TRUE]

\* A fetched XML document: the <loc> texts of its <sitemap> elements and of
\* its <url> elements, in document order.  A document whose parse raises is
\* XmlRaising: `handled` <loc> elements are handled before the exception.
XmlDoc(sm, ur) ==
  [failed |-> FALSE, sitemaps |-> sm, urls |-> ur, handled |-> Len(sm) + Len(ur)]
XmlRaising(sm, ur, n) == [failed |-> FALSE, sitemaps |-> sm, urls |-> ur, handled |-> n]

\* what fetch_url(url, is_xml=True) can return for each sitemap document:
\* S0 is an index that also names itself, S1 is a leaf, S2 is a leaf or an
\* index back to S0 and S1
WebOf(url) ==
  CASE url = S0 -> {NoResponse, XmlDoc(<<S1, <<" ">> \o S2, S0>>, <<>>)}
    [] url = S1 -> {XmlDoc(<<>>, <<LocASlash, LocBQuery>>),
                    XmlRaising(<<>>, <<LocASlash, LocBQuery>>, 1)}
    [] url = S2 -> {NoResponse, XmlDoc(<<>>, <<LocA, LocRoot>>),
                    XmlDoc(<<S0, S1>>, <<LocRoot>>)}
    [] OTHER -> {NoResponse}

\* key-page descriptors "URL|Selector" of the configuration; KBad has no "|"
K1 == <<"p", "1", "|", "s">>
K2 == <<"p", "2", " ", "|", " ", "s">>
KBad == <<"p", "1">>

\* What fetching a page and selecting its element gives: fetch_url fails, the
\* parse or the selector raises, the selector matches nothing, or the text of
\* the matched element.
PageFailed  == [failed |-> TRUE,  raises |-> FALSE, matched |-> FALSE, text |-> ""]
PageRaises  == [failed |-> FALSE, raises |-> TRUE,  matched |-> FALSE, text |-> ""]
PageNoMatch == [failed |-> FALSE, raises |-> FALSE, matched |-> FALSE, text |-> ""]
PageText(t) == [failed |-> FALSE, raises |-> FALSE, matched |-> TRUE,  text |-> t]
PageOutcomes(item) ==
  IF item = K1 THEN {PageFailed, PageRaises, PageText("t1"), PageText("t2")}
  ELSE {PageFailed, PageNoMatch, PageText("t1")}

\* pages monitored for their assets, and the references found on them
A1 == <<"h", ":", "/", "/", "x", "/">>
A2 == <<"h", ":", "/", "/", "x", "/", "a">>
RefJs  == <<"/", "b", "/">>
RefCss == <<"h", ":", "/", "/", "x", "/", "a", "#", "f">>

\* a fetched page for check_assets: its <script src> and <link rel=stylesheet
\* href> values; `handled` as for XmlDoc
AssetPage(sc, li) == [failed |-> FALSE, scripts |-> sc, links |-> li,
                      handled |-> Len(sc) + Len(li)]
AssetRaising(sc, li, n) == [failed |-> FALSE, scripts |-> sc, links |-> li, handled |-> n]
AssetOutcomes(page_url) ==
  IF page_url = A1
    THEN {NoResponse, AssetPage(<<>>, <<>>), AssetPage(<<RefJs>>, <<RefCss>>),
          AssetRaising(<<RefJs>>, <<RefCss>>, 1)}
    ELSE {NoResponse, AssetPage(<<RefJs>>, <<>>)}

\* repositories and commit identifiers
R1 == <<"o", "/", "r", "1">>
R2 == <<"o", "/", "r", "2">>
Sha1 == <<"a", "a", "a", "a", "a", "a", "a", "1">>
Sha2 == <<"b", "a", "a", "a", "a", "a", "a", "2">>
RepoRaises == [raises |-> TRUE, sha |-> None]
RepoSha(c) == [raises |-> FALSE, sha |-> c]
RepoOutcomes(repo_name) ==
  IF repo_name = R1 THEN {RepoRaises, RepoSha(Sha1), RepoSha(Sha2)}
  ELSE {RepoRaises, RepoSha(Sha1)}

\* feeds and their entries, newest first; a malformed feed (bozo) may still
\* carry the entries that were parsed before the error
F1 == <<"f", "1">>
F2 == <<"f", "2">>
Entry(i, l, t) == [id |-> i, link |-> l, title |-> t, published |-> None]
E1 == Entry(<<"e", "1">>, <<"l", "1">>, <<"t", "1">>)
E2 == Entry(<<"e", "2">>, None, <<"t", "2">>)
E3 == Entry(None, <<"l", "3">>, None)
Feed(b, es) == [bozo |-> b, entries |-> es]
FeedOutcomes(feed_url) ==
  IF feed_url = F1
    THEN {Feed(TRUE, <<E2, E1>>), Feed(FALSE, <<>>), Feed(FALSE, <<E1>>),
          Feed(FALSE, <<E2, E1>>), Feed(FALSE, <<E3, E2, E1>>)}
    ELSE {Feed(TRUE, <<>>), Feed(FALSE, <<E1>>)}

(***************************************************************************)
(* The checkers.                                                           *)
(***************************************************************************)
Min(a, b) == IF a < b THEN a ELSE b

\* l[:n]
Handled(l, n) == SubSeq(l, 1, Min(Len(l), n))

\* a loop body that gives up the rest of the worklist when a fetch fails
SitemapFetchedStopsOnFailure(cur, resp, known_urls_set, to_process, processed, discovered) ==
  IF resp.failed
    THEN [urls_to_process |-> {}, processed_sitemaps |-> processed \cup {cur},
          newly_discovered_urls |-> discovered, fetched |-> TRUE]
  ELSE IF resp.sitemaps # <<>>
    THEN [urls_to_process |->
            to_process \cup {Strip(l) : l \in ToSet(Handled(resp.sitemaps, resp.handled))},
          processed_sitemaps |-> processed \cup {cur},
          newly_discovered_urls |-> discovered, fetched |-> TRUE]
  ELSE [urls_to_process |-> to_process, processed_sitemaps |-> processed \cup {cur},
        newly_discovered_urls |->
          discovered \cup ({NormalizedLoc[l] :
                              l \in ToSet(Handled(resp.urls, resp.handled))}
                           \ known_urls_set),
        fetched |-> TRUE]

\* check_sitemap, the loop body from processed_sitemaps.add on: the document
\* cur is fetched, and an index adds the targets of its <sitemap> elements to
\* the worklist while a leaf adds the normalized locations that are not known
\* to the discovered set.
SitemapFetched(cur, resp, known_urls_set, to_process, processed, discovered) ==
  IF resp.failed
    THEN [urls_to_process |-> to_process, processed_sitemaps |-> processed \cup {cur},
          newly_discovered_urls |-> discovered, fetched |-> TRUE]
  ELSE IF resp.sitemaps # <<>>
    THEN [urls_to_process |->
            to_process \cup {Strip(l) : l \in ToSet(Handled(resp.sitemaps, resp.handled))},
          processed_sitemaps |-> processed \cup {cur},
          newly_discovered_urls |-> discovered, fetched |-> TRUE]
  ELSE [urls_to_process |-> to_process, processed_sitemaps |-> processed \cup {cur},
        newly_discovered_urls |->
          discovered \cup ({NormalizedLoc[l] :
                              l \in ToSet(Handled(resp.urls, resp.handled))}
                           \ known_urls_set),
        fetched |-> TRUE]

\* an iteration that fetches the popped URL without looking at the visited set
SitemapIterationRefetches(cur, resp, known_urls_set, to_process, processed, discovered) ==
  SitemapFetched(cur, resp, known_urls_set, to_process, processed, discovered)

\* an iteration that never adds to the visited set
SitemapIterationForgetful(cur, resp, known_urls_set, to_process, processed, discovered) ==
  [SitemapFetched(cur, resp, known_urls_set, to_process, processed, discovered)
     EXCEPT !.processed_sitemaps = processed]

\* check_sitemap, one iteration of `while urls_to_process`: the popped URL
\* cur is skipped if it is in the visited set, else it is fetched and handled
SitemapIteration(cur, resp, known_urls_set, to_process, processed, discovered) ==
  IF cur \in processed
    THEN [urls_to_process |-> to_process, processed_sitemaps |-> processed,
          newly_discovered_urls |-> discovered, fetched |-> FALSE]
    ELSE SitemapFetched(cur, resp, known_urls_set, to_process, processed, discovered)

\* a merge that stores the new URLs alone
MergeNewOnly(known_urls_set, new_urls) == SortedList(ToSet(new_urls))

\* a merge that stores the known URLs alone
MergeKnownOnly(known_urls_set, new_urls) == SortedList(known_urls_set)

\* the state slice after the sitemap check: sorted(list(known | new))
MergeSitemapUrls(known_urls_set, new_urls) ==
  SortedList(known_urls_set \cup ToSet(new_urls))

\* get_content_hash: SHA-256 of the text, taken as injective
NoText == "None"
get_content_hash(text) == IF text = NoText THEN None ELSE <<"sha256", text>>

\* item.split('|', 1) and the strip of both halves; ok is FALSE on ValueError
SplitItem(item) ==
  LET i == FindFirst(item, {"|"}, 1)
  IN IF i > Len(item) THEN [ok |-> FALSE, url |-> <<>>, selector |-> <<>>]
     ELSE [ok |-> TRUE, url |-> Strip(Slice(item, 1, i - 1)),
           selector |-> Strip(Slice(item, i + 1, Len(item)))]

\* a loop body that reports every page it has hashed
KeyPageItemReportsAlways(acc, item, known_hashes_map, pages) ==
  IF ~SplitItem(item).ok THEN acc
  ELSE IF pages[item].failed THEN acc
  ELSE IF pages[item].raises THEN acc
  ELSE [changed |-> Append(acc.changed, item),
        current |-> Put(acc.current, item,
                        get_content_hash(IF pages[item].matched THEN pages[item].text
                                         ELSE ""))]

\* check_key_pages, the body of the loop for one item, on the accumulator
\* acc = [changed, current]
KeyPageItem(acc, item, known_hashes_map, pages) ==
  IF ~SplitItem(item).ok THEN acc
  ELSE IF pages[item].failed THEN acc
  ELSE IF pages[item].raises THEN acc
  ELSE LET page == pages[item]
           content_text == IF page.matched THEN page.text ELSE ""
           current_hash == get_content_hash(content_text)
           known_hash == Get(known_hashes_map, item, None)
       IN [changed |-> IF current_hash # None /\ current_hash # known_hash
                         THEN Append(acc.changed, item) ELSE acc.changed,
           current |-> Put(acc.current, item, current_hash)]

RECURSIVE KeyPagesLoop(_, _, _, _)
KeyPagesLoop(acc, items, known_hashes_map, pages) ==
  IF items = <<>> THEN acc
  ELSE KeyPagesLoop(KeyPageItem(acc, Head(items), known_hashes_map, pages),
                    Tail(items), known_hashes_map, pages)

\* check_key_pages: (changed_pages_list, current_hashes_map)
check_key_pages(pages_selectors, known_hashes_map, pages) ==
  KeyPagesLoop([changed |-> <<>>, current |-> EmptyDict],
               pages_selectors, known_hashes_map, pages)

\* urllib.parse.urljoin for the references of the model: an absolute
\* reference stands, a reference that starts with "/" replaces the path of
\* the base, any other is appended to the directory of the base path
RECURSIVE DirOf(_)
DirOf(path) ==
  IF path = <<>> \/ path[Len(path)] = "/" THEN path
  ELSE DirOf(SubSeq(path, 1, Len(path) - 1))

JoinOnto(b, url) ==
  IF url # <<>> /\ Head(url) = "/"
    THEN b.scheme \o <<":", "/", "/">> \o b.netloc \o url
    ELSE b.scheme \o <<":", "/", "/">> \o b.netloc \o DirOf(b.path) \o url

urljoin(base, url) ==
  IF urlparse(url).scheme # <<>> THEN url ELSE JoinOnto(urlparse(base), url)

\* check_assets, the comparison of the current with the known assets of a page
AssetCompare(acc, page_url, current_page_assets, known_page_assets) ==
  [changed |->
     IF current_page_assets # known_page_assets
        /\ (current_page_assets \ known_page_assets # {}
            \/ known_page_assets \ current_page_assets # {})
       THEN Append(acc.changed,
                   [page |-> page_url,
                    added |-> Cardinality(current_page_assets \ known_page_assets),
                    removed |-> Cardinality(known_page_assets \ current_page_assets)])
       ELSE acc.changed,
   current |-> Put(acc.current, page_url, SortedList(current_page_assets))]

\* check_assets, the body of the loop for one page, on acc = [changed, current]
AssetItem(acc, page_url, known_asset_map, resp) ==
  IF resp.failed
    THEN [changed |-> acc.changed, current |-> Put(acc.current, page_url, <<>>)]
    ELSE AssetCompare(acc, page_url,
                      {normalize_url(urljoin(page_url, r)) :
                         r \in ToSet(Handled(resp.scripts \o resp.links, resp.handled))},
                      ToSet(Get(known_asset_map, page_url, <<>>)))

RECURSIVE AssetsLoop(_, _, _, _)
AssetsLoop(acc, page_urls, known_asset_map, resps) ==
  IF page_urls = <<>> THEN acc
  ELSE AssetsLoop(AssetItem(acc, Head(page_urls), known_asset_map, resps[Head(page_urls)]),
                  Tail(page_urls), known_asset_map, resps)

\* check_assets: (changed_assets_list, current_asset_map)
check_assets(page_urls, known_asset_map, resps) ==
  AssetsLoop([changed |-> <<>>, current |-> EmptyDict], page_urls, known_asset_map, resps)

\* check_github_repos, the body of the loop for one repository
RepoItem(acc, repo_name, known_repo_state, api) ==
  IF api.raises THEN acc
  ELSE LET latest_commit_sha == api.sha
           known_sha == Get(known_repo_state, repo_name, None)
       IN [changed |-> IF latest_commit_sha # known_sha
                         THEN Append(acc.changed,
                                     [repo |-> repo_name,
                                      sha7 |-> Handled(latest_commit_sha, 7)])
                         ELSE acc.changed,
           current |-> Put(acc.current, repo_name, latest_commit_sha)]

\* a loop that stops at the first repository whose lookup fails
RECURSIVE ReposLoopAborting(_, _, _, _)
ReposLoopAborting(acc, repo_names, known_repo_state, apis) ==
  IF repo_names = <<>> THEN acc
  ELSE IF apis[Head(repo_names)].raises THEN acc
  ELSE ReposLoopAborting(RepoItem(acc, Head(repo_names), known_repo_state,
                                  apis[Head(repo_names)]),
                         Tail(repo_names), known_repo_state, apis)

RECURSIVE ReposLoop(_, _, _, _)
ReposLoop(acc, repo_names, known_repo_state, apis) ==
  IF repo_names = <<>> THEN acc
  ELSE ReposLoop(RepoItem(acc, Head(repo_names), known_repo_state, apis[Head(repo_names)]),
                 Tail(repo_names), known_repo_state, apis)

\* check_github_repos: (updated_repos_list, current_repo_state); without a
\* client it returns no update and the known state
check_github_repos(repo_names, known_repo_state, github_client, apis) ==
  IF ~github_client THEN [changed |-> <<>>, current |-> known_repo_state]
  ELSE ReposLoop([changed |-> <<>>, current |-> EmptyDict],
                 repo_names, known_repo_state, apis)

\* limit of the entries reported per feed (and of nothing else)
MAX_OUTPUT_LIST_ITEMS == 100

\* str(None) in an f-string
StrOf(v) == IF v = None THEN <<"N", "o", "n", "e">> ELSE v

\* entry.get('id') or entry.get('link') or f"{title}_{published}"
EntryId(entry) ==
  IF entry.id # None THEN entry.id
  ELSE IF entry.link # None THEN entry.link
  ELSE StrOf(entry.title) \o <<"_">> \o StrOf(entry.published)

\* f"{title} ({link})" with the defaults 'No Title' and the feed URL
EntryText(entry, feed_url) ==
  [title |-> IF entry.title = None THEN <<"No Title">> ELSE entry.title,
   link  |-> IF entry.link = None THEN feed_url ELSE entry.link]

\* a collection that takes the newest entry alone
CollectNewestOnly(temp, entries, known_latest_id, feed_url, count) ==
  IF EntryId(Head(entries)) = known_latest_id THEN temp
  ELSE Append(temp, EntryText(Head(entries), feed_url))

\* the loop that collects temp_new_entries: it stops at the known identifier
\* or once MAX_OUTPUT_LIST_ITEMS entries are collected
RECURSIVE CollectEntries(_, _, _, _, _)
CollectEntries(temp, entries, known_latest_id, feed_url, count) ==
  IF entries = <<>> THEN temp
  ELSE IF EntryId(Head(entries)) = known_latest_id THEN temp
  ELSE IF count + 1 >= MAX_OUTPUT_LIST_ITEMS
    THEN temp \o <<EntryText(Head(entries), feed_url), [title |-> <<"...">>, link |-> None]>>
  ELSE CollectEntries(Append(temp, EntryText(Head(entries), feed_url)),
                      Tail(entries), known_latest_id, feed_url, count + 1)

\* a loop body that reports the entries of a feed tracked for the first time
FeedItemReportsFirst(acc, feed_url, known_feed_state, parsed_feed) ==
  IF parsed_feed.bozo
    THEN [changed |-> acc.changed,
          current |-> Put(acc.current, feed_url, Get(known_feed_state, feed_url, None))]
  ELSE IF parsed_feed.entries = <<>>
    THEN [changed |-> acc.changed, current |-> Put(acc.current, feed_url, None)]
  ELSE [changed |-> acc.changed \o CollectEntries(<<>>, parsed_feed.entries,
                                                  Get(known_feed_state, feed_url, None),
                                                  feed_url, 0),
        current |-> Put(acc.current, feed_url, EntryId(parsed_feed.entries[1]))]

\* a loop body that resets the identifier of a malformed feed
FeedItemResetsMalformed(acc, feed_url, known_feed_state, parsed_feed) ==
  IF parsed_feed.bozo \/ parsed_feed.entries = <<>>
    THEN [changed |-> acc.changed, current |-> Put(acc.current, feed_url, None)]
  ELSE [changed |-> IF EntryId(parsed_feed.entries[1]) # Get(known_feed_state, feed_url, None)
                       /\ Get(known_feed_state, feed_url, None) # None
                      THEN acc.changed \o CollectEntries(<<>>, parsed_feed.entries,
                                                         Get(known_feed_state, feed_url, None),
                                                         feed_url, 0)
                      ELSE acc.changed,
        current |-> Put(acc.current, feed_url, EntryId(parsed_feed.entries[1]))]

\* check_research_feeds, the body of the loop for one feed
FeedItem(acc, feed_url, known_feed_state, parsed_feed) ==
  IF parsed_feed.bozo
    THEN [changed |-> acc.changed,
          current |-> Put(acc.current, feed_url, Get(known_feed_state, feed_url, None))]
  ELSE IF parsed_feed.entries = <<>>
    THEN [changed |-> acc.changed, current |-> Put(acc.current, feed_url, None)]
  ELSE LET latest_entry_id == EntryId(parsed_feed.entries[1])
           known_latest_id == Get(known_feed_state, feed_url, None)
           temp_new_entries ==
             CollectEntries(<<>>, parsed_feed.entries, known_latest_id, feed_url, 0)
       IN [changed |-> IF latest_entry_id # known_latest_id /\ known_latest_id # None
                         THEN acc.changed \o temp_new_entries ELSE acc.changed,
           current |-> Put(acc.current, feed_url, latest_entry_id)]

RECURSIVE FeedsLoop(_, _, _, _)
FeedsLoop(acc, feed_urls, known_feed_state, parsed) ==
  IF feed_urls = <<>> THEN acc
  ELSE FeedsLoop(FeedItem(acc, Head(feed_urls), known_feed_state, parsed[Head(feed_urls)]),
                 Tail(feed_urls), known_feed_state, parsed)

\* check_research_feeds: (new_feed_entries_list, current_feed_state)
check_research_feeds(feed_urls, known_feed_state, parsed) ==
  FeedsLoop([changed |-> <<>>, current |-> EmptyDict], feed_urls, known_feed_state, parsed)

(***************************************************************************)
(* The state file, the configuration and the run.                          *)
(***************************************************************************)
\* the five slices of the state document, which are also the five checkers
Slices == {"sitemap_urls", "page_content_hashes", "asset_map",
           "github_repo_state", "feed_state"}

\* the configuration key that enables the checker of a slice
ConfigKey(slice) ==
  CASE slice = "sitemap_urls" -> "sitemap_url"
    [] slice = "page_content_hashes" -> "key_pages_selectors"
    [] slice = "asset_map" -> "asset_monitor_pages"
    [] slice = "github_repo_state" -> "github_repos"
    [] slice = "feed_state" -> "research_feeds"

\* the values each configuration key takes; None is the absent key
ConfigValues(slice) ==
  CASE slice = "sitemap_urls" -> {None, S0}
    [] slice = "page_content_hashes" -> {None, <<K1>>, <<K1, KBad>>, <<K2, K1>>, <<K1, K1>>}
    [] slice = "asset_map" -> {None, <<A1>>, <<A2, A1>>}
    [] slice = "github_repo_state" -> {None, <<R1>>, <<R1, R2>>}
    [] slice = "feed_state" -> {None, <<F1>>, <<F2, F1>>}

\* the configuration documents, by slice
MakeConfig(sm, kp, am, gr, rf) ==
  [k \in Slices |-> CASE k = "sitemap_urls" -> sm
                      [] k = "page_content_hashes" -> kp
                      [] k = "asset_map" -> am
                      [] k = "github_repo_state" -> gr
                      [] k = "feed_state" -> rf]

AllConfigs ==
  {MakeConfig(sm, kp, am, gr, rf) :
     sm \in ConfigValues("sitemap_urls"), kp \in ConfigValues("page_content_hashes"),
     am \in ConfigValues("asset_map"), gr \in ConfigValues("github_repo_state"),
     rf \in ConfigValues("feed_state")}

\* the number of sources a configuration names
Sources(cfg) ==
  (IF Truthy(cfg["sitemap_urls"]) THEN 1 ELSE 0) + Len(cfg["page_content_hashes"])
    + Len(cfg["asset_map"]) + Len(cfg["github_repo_state"]) + Len(cfg["feed_state"])

Configs == {cfg \in AllConfigs : Sources(cfg) <= MaxSources}

\* the state file: absent, a complete JSON document, or the truncated or
\* partial text that open(filepath, 'w') and an unfinished json.dump leave
NoFile == [kind |-> "absent", doc |-> EmptyDict]
Complete(doc) == [kind |-> "complete", doc |-> doc]
Truncated == [kind |-> "truncated", doc |-> EmptyDict]

\* load_state: {} if the file does not exist, if its text is not JSON or if
\* reading it raises, else the document
load_state(f, readable) ==
  IF f.kind = "complete" /\ readable THEN f.doc ELSE EmptyDict

\* the default of current_state.get(slice, default)
SliceDefault(slice) == IF slice = "sitemap_urls" THEN <<>> ELSE EmptyDict

\* a new_state that starts from empty slices
InitNewStateEmpty(current) == [k \in Slices |-> SliceDefault(k)]

\* new_state as initialised from the loaded document
InitNewState(current) == [k \in Slices |-> Get(current, k, SliceDefault(k))]

EmptyResults ==
  [new_urls |-> <<>>, changed_pages |-> <<>>, changed_assets |-> <<>>,
   updated_repos |-> <<>>, new_feed_entries |-> <<>>]

EmptyEnv ==
  [web |-> EmptyDict, pages |-> EmptyDict, asset_pages |-> EmptyDict,
   repos |-> EmptyDict, feeds |-> EmptyDict]

\* a start that goes on to load the state whatever the environment holds
AfterEnvironAlwaysLoads(environment) == "load"

\* where __main__ goes once it has read MATRIX_CONFIG_JSON and STATE_FILE:
\* sys.exit when either is missing
AfterEnviron(environment) == IF environment = "ok" THEN "load" ELSE "fatal"

\* an order of the stages that saves before the feed check
StagesSaveEarly == <<"load", "sitemap", "key_pages", "assets", "repos", "save", "feeds",
                     "outputs", "done">>

\* the stages of __main__ in program order
Stages == <<"load", "sitemap", "key_pages", "assets", "repos", "feeds", "save",
            "outputs", "done">>

StageAfter(stage) ==
  LET i == CHOOSE j \in 1..Len(Stages) : Stages[j] = stage IN Stages[i + 1]

VARIABLES
  file,                  \* the state file on disk
  pc,                    \* where the run is
  run,                   \* number of runs started
  scope,                 \* the checkers the configurations may enable
  config,                \* this run's configuration, by slice
  g,                     \* whether the GitHub client is initialised
  current_state,         \* the document load_state returned
  new_state,             \* the document the run builds and saves
  results,               \* the five result lists
  urls_to_process,       \* check_sitemap: the worklist
  processed_sitemaps,    \* check_sitemap: the visited set
  newly_discovered_urls, \* check_sitemap: the discovered set
  fetches,               \* check_sitemap: fetches made, per document
  env,                   \* what the external sources answered in this run
  file0,                 \* the state file as it was when the run started
  saves,                 \* number of calls of save_state in this run
  assigned,              \* the slices of new_state the run has assigned
  prev_web,              \* the sitemap answers of the previous run, if it
                         \* finished its sitemap check and saved its state
  environ,               \* what os.environ held when the run started
  call                   \* a helper function called on its own: its
                         \* arguments and, once it has returned, its value

vars == <<file, pc, run, scope, config, g, current_state, new_state, results,
          urls_to_process, processed_sitemaps, newly_discovered_urls, fetches,
          env, file0, saves, assigned, prev_web, environ, call>>

sitemap_locals == <<urls_to_process, processed_sitemaps, newly_discovered_urls, fetches>>
run_inputs == <<run, scope, config, g, file0, prev_web, environ>>

Enabled(slice) == Truthy(config[slice])

\* no helper function is called on its own
NoCall == [fn |-> "none"]

Init ==
  /\ file = NoFile
  /\ pc = "idle"
  /\ run = 0
  /\ scope \in {sc \in SUBSET Slices : Cardinality(sc) <= MaxCheckers}
  /\ config = [k \in Slices |-> None]
  /\ g = FALSE
  /\ current_state = EmptyDict
  /\ new_state = InitNewState(EmptyDict)
  /\ results = EmptyResults
  /\ urls_to_process = {}
  /\ processed_sitemaps = {}
  /\ newly_discovered_urls = {}
  /\ fetches = [d \in SitemapDocs |-> 0]
  /\ env = EmptyEnv
  /\ file0 = NoFile
  /\ saves = 0
  /\ assigned = {}
  /\ prev_web = EmptyDict
  /\ environ = "ok"
  /\ call = NoCall

(***************************************************************************)
(* The actions: one run of __main__ after the other.                       *)
(***************************************************************************)
\* the orders in which list(a_set) may enumerate a set
Orders(S) == {o \in [1..Cardinality(S) -> S] : ToSet(o) = S}

\* the answers the sources of the set D may give: one of Outcomes(d) for each
Answers(D, Outcomes(_)) ==
  {f \in [D -> UNION {Outcomes(d) : d \in D}] : \A d \in D : f[d] \in Outcomes(d)}

\* The memory of the process: it is lost when the process ends.
ProcessMemoryLost ==
  /\ config' = [k \in Slices |-> None]
  /\ g' = FALSE
  /\ current_state' = EmptyDict
  /\ new_state' = InitNewState(EmptyDict)
  /\ results' = EmptyResults
  /\ urls_to_process' = {}
  /\ processed_sitemaps' = {}
  /\ newly_discovered_urls' = {}
  /\ fetches' = [d \in SitemapDocs |-> 0]
  /\ env' = EmptyEnv
  /\ assigned' = {}

\* The script starts: it reads MATRIX_CONFIG_JSON and STATE_FILE from the
\* environment, exits if either is missing, and initialises the GitHub client
\* (a client that no configured repository uses is left out).
StartRun ==
  /\ pc \in {"idle", "done", "killed", "fatal"}
  /\ run < MaxRuns
  /\ run' = run + 1
  /\ \E environment \in {"ok", "no MATRIX_CONFIG_JSON", "no STATE_FILE"} :
       \E cfg \in Configs, client \in BOOLEAN :
           /\ \A k \in Slices \ scope : cfg[k] = None
           /\ client => Truthy(cfg["github_repo_state"])
           /\ environment # "ok" => (\A k \in Slices : cfg[k] = None) /\ ~client
           /\ environ' = environment
           /\ config' = cfg
           /\ g' = client
           /\ pc' = AfterEnviron(environment)
  /\ file0' = file
  /\ saves' = 0
  /\ UNCHANGED <<file, scope, prev_web, current_state, new_state, results, env, assigned,
                 sitemap_locals, call>>

\* current_state = load_state(state_file) and the initialisation of new_state
LoadState ==
  /\ pc = "load"
  /\ \E readable \in BOOLEAN :
       /\ current_state' = load_state(file, readable)
       /\ new_state' = InitNewState(load_state(file, readable))
  /\ pc' = StageAfter("load")
  /\ UNCHANGED <<file, results, env, saves, assigned, run_inputs, sitemap_locals, call>>

\* 1. Sitemap Check: skipped when disabled, else check_sitemap starts with
\* the entry URL in the worklist
SitemapCheck ==
  /\ pc = "sitemap"
  /\ IF Enabled("sitemap_urls")
       THEN /\ urls_to_process' = {config["sitemap_urls"]}
            /\ pc' = "sitemap_loop"
       ELSE /\ pc' = StageAfter("sitemap")
            /\ UNCHANGED urls_to_process
  /\ UNCHANGED <<file, current_state, new_state, results, env, saves, assigned, run_inputs,
                 processed_sitemaps, newly_discovered_urls, fetches, call>>

\* one iteration of the while loop of check_sitemap; set.pop() takes any URL,
\* and a document answers the same to every fetch of one run
SitemapPop ==
  /\ pc = "sitemap_loop"
  /\ \E cur \in urls_to_process :
       \E resp \in (IF cur \in DOMAIN env.web THEN {env.web[cur]} ELSE WebOf(cur)) :
         LET r == SitemapIteration(cur, resp, ToSet(new_state["sitemap_urls"]),
                                   urls_to_process \ {cur}, processed_sitemaps,
                                   newly_discovered_urls)
         IN /\ urls_to_process' = r.urls_to_process
            /\ processed_sitemaps' = r.processed_sitemaps
            /\ newly_discovered_urls' = r.newly_discovered_urls
            /\ fetches' = IF r.fetched THEN [fetches EXCEPT ![cur] = Min(@ + 1, MaxFetches)]
                                      ELSE fetches
            /\ env' = IF r.fetched THEN [env EXCEPT !.web = Put(@, cur, resp)] ELSE env
  /\ UNCHANGED <<file, pc, current_state, new_state, results, saves, assigned, run_inputs, call>>

\* check_sitemap returns list(newly_discovered_urls) and __main__ stores the
\* sorted union of the known and the new URLs
SitemapReturn ==
  /\ pc = "sitemap_loop"
  /\ urls_to_process = {}
  /\ \E new_urls \in Orders(newly_discovered_urls) :
       /\ results' = [results EXCEPT !.new_urls = new_urls]
       /\ new_state' = [new_state EXCEPT !["sitemap_urls"] =
                          MergeSitemapUrls(ToSet(new_state["sitemap_urls"]), new_urls)]
  /\ assigned' = assigned \cup {"sitemap_urls"}
  /\ pc' = StageAfter("sitemap")
  /\ UNCHANGED <<file, current_state, env, saves, run_inputs, sitemap_locals, call>>

\* 2. Key Pages Content Check
KeyPagesCheck ==
  /\ pc = "key_pages"
  /\ IF Enabled("page_content_hashes")
       THEN \E pages \in Answers({i \in ToSet(config["page_content_hashes"]) :
                                   SplitItem(i).ok}, PageOutcomes) :
              LET r == check_key_pages(config["page_content_hashes"],
                                       new_state["page_content_hashes"], pages)
              IN /\ env' = [env EXCEPT !.pages = pages]
                 /\ results' = [results EXCEPT !.changed_pages = r.changed]
                 /\ new_state' = [new_state EXCEPT !["page_content_hashes"] = r.current]
                 /\ assigned' = assigned \cup {"page_content_hashes"}
       ELSE UNCHANGED <<env, results, new_state, assigned>>
  /\ pc' = StageAfter("key_pages")
  /\ UNCHANGED <<file, current_state, saves, run_inputs, sitemap_locals, call>>

\* 3. Asset Check
AssetCheck ==
  /\ pc = "assets"
  /\ IF Enabled("asset_map")
       THEN \E resps \in Answers(ToSet(config["asset_map"]), AssetOutcomes) :
              LET r == check_assets(config["asset_map"], new_state["asset_map"], resps)
              IN /\ env' = [env EXCEPT !.asset_pages = resps]
                 /\ results' = [results EXCEPT !.changed_assets = r.changed]
                 /\ new_state' = [new_state EXCEPT !["asset_map"] = r.current]
                 /\ assigned' = assigned \cup {"asset_map"}
       ELSE UNCHANGED <<env, results, new_state, assigned>>
  /\ pc' = StageAfter("assets")
  /\ UNCHANGED <<file, current_state, saves, run_inputs, sitemap_locals, call>>

\* 4. GitHub Repo Check; without a client no repository is looked up
RepoCheck ==
  /\ pc = "repos"
  /\ IF Enabled("github_repo_state")
       THEN \E apis \in Answers(IF g THEN ToSet(config["github_repo_state"]) ELSE {},
                                RepoOutcomes) :
              LET r == check_github_repos(config["github_repo_state"],
                                          new_state["github_repo_state"], g, apis)
              IN /\ env' = [env EXCEPT !.repos = apis]
                 /\ results' = [results EXCEPT !.updated_repos = r.changed]
                 /\ new_state' = [new_state EXCEPT !["github_repo_state"] = r.current]
                 /\ assigned' = assigned \cup {"github_repo_state"}
       ELSE UNCHANGED <<env, results, new_state, assigned>>
  /\ pc' = StageAfter("repos")
  /\ UNCHANGED <<file, current_state, saves, run_inputs, sitemap_locals, call>>

\* 5. Research Feed Check
FeedCheck ==
  /\ pc = "feeds"
  /\ IF Enabled("feed_state")
       THEN \E parsed \in Answers(ToSet(config["feed_state"]), FeedOutcomes) :
              LET r == check_research_feeds(config["feed_state"],
                                            new_state["feed_state"], parsed)
              IN /\ env' = [env EXCEPT !.feeds = parsed]
                 /\ results' = [results EXCEPT !.new_feed_entries = r.changed]
                 /\ new_state' = [new_state EXCEPT !["feed_state"] = r.current]
                 /\ assigned' = assigned \cup {"feed_state"}
       ELSE UNCHANGED <<env, results, new_state, assigned>>
  /\ pc' = StageAfter("feeds")
  /\ UNCHANGED <<file, current_state, saves, run_inputs, sitemap_locals, call>>

\* save_state, open(filepath, 'w'): the file is created or truncated, unless
\* open raises, which save_state logs
SaveOpen ==
  /\ pc = "save"
  /\ saves' = saves + 1
  /\ \/ file' = Truncated /\ pc' = "save_write"
     \/ file' = file /\ pc' = StageAfter("save")
  /\ UNCHANGED <<current_state, new_state, results, env, assigned, run_inputs,
                 sitemap_locals, call>>

\* save_state, json.dump and the close of the file: the document is written,
\* unless the write raises, which save_state logs
SaveWrite ==
  /\ pc = "save_write"
  /\ \/ file' = Complete(new_state)
     \/ file' = file
  /\ pc' = StageAfter("save")
  /\ UNCHANGED <<current_state, new_state, results, env, saves, assigned, run_inputs,
                 sitemap_locals, call>>

\* the outputs are set and the script finishes
SetOutputs ==
  /\ pc = "outputs"
  /\ pc' = StageAfter("outputs")
  /\ prev_web' = IF Enabled("sitemap_urls") /\ file = Complete(new_state)
                   THEN env.web ELSE EmptyDict
  /\ ProcessMemoryLost
  /\ UNCHANGED <<file, run, scope, file0, saves, environ, call>>

\* the process is killed from outside, at any point of a run
Kill ==
  /\ pc \notin {"idle", "done", "killed", "fatal"}
  /\ pc' = "killed"
  /\ prev_web' = EmptyDict
  /\ ProcessMemoryLost
  /\ UNCHANGED <<file, run, scope, file0, saves, environ, call>>

Next ==
  \/ StartRun
  \/ LoadState
  \/ SitemapCheck
  \/ SitemapPop
  \/ SitemapReturn
  \/ KeyPagesCheck
  \/ AssetCheck
  \/ RepoCheck
  \/ FeedCheck
  \/ SaveOpen
  \/ SaveWrite
  \/ SetOutputs
  \/ Kill

Spec == Init /\ [][Next]_vars

(***************************************************************************)
(* check_sitemap called on its own, from any entry document and with any   *)
(* set of known URLs.                                                      *)
(***************************************************************************)
\* the page URLs a state file can hold
KnownUrls == {NormalizedLoc[l] : l \in LocTexts}

\* the state document of a run that monitored the sitemap alone
SitemapState(known) == [InitNewState(EmptyDict) EXCEPT !["sitemap_urls"] = SortedList(known)]

\* __main__ has loaded the state and calls check_sitemap(entry, known)
SitemapInit ==
  \E entry \in SitemapDocs, known \in SUBSET KnownUrls :
    /\ file = Complete(SitemapState(known))
    /\ file0 = file
    /\ pc = "sitemap_loop"
    /\ run = 1
    /\ scope = {"sitemap_urls"}
    /\ config = MakeConfig(entry, None, None, None, None)
    /\ g = FALSE
    /\ current_state = SitemapState(known)
    /\ new_state = InitNewState(SitemapState(known))
    /\ results = EmptyResults
    /\ urls_to_process = {entry}
    /\ processed_sitemaps = {}
    /\ newly_discovered_urls = {}
    /\ fetches = [d \in SitemapDocs |-> 0]
    /\ env = EmptyEnv
    /\ saves = 0
    /\ assigned = {}
    /\ prev_web = EmptyDict
    /\ environ = "ok"
    /\ call = NoCall

SitemapNext ==
  \/ SitemapPop
  \/ SitemapReturn

\* The loop of check_sitemap makes no call that blocks without a timeout: as
\* long as the worklist is not empty, the next iteration runs.
SitemapSpec == SitemapInit /\ [][SitemapNext]_vars /\ WF_vars(SitemapPop)

(***************************************************************************)
(* The helper functions called on their own.                               *)
(***************************************************************************)
\* the paths of the URLs: empty, or "/" followed by "/" and "a" characters
Paths ==
  {<<>>} \cup {<<"/">> \o p : p \in UNION {[1..n -> {"/", "a"}] : n \in 0..(MaxPathLen - 1)}}

\* what follows the path: nothing, a query, a fragment, or both
QueryAndFragment ==
  {<<>>, <<"?", "q">>, <<"?", "/">>, <<"#", "f">>, <<"?", "q", "#", "f", "/">>}

SchemeAndHost == <<"h", ":", "/", "/", "x">>

\* the calls normalize_url(url)
UrlCalls ==
  {[fn |-> "normalize_url", url |-> SchemeAndHost \o p \o q, path |-> p,
    returned |-> FALSE, value |-> <<>>] : p \in Paths, q \in QueryAndFragment}

\* the calls format_output_list(items), for lists of every length up to
\* MaxItems
ListCalls ==
  {[fn |-> "format_output_list", items |-> [i \in 1..n |-> item],
    returned |-> FALSE, value |-> <<>>] :
     n \in 0..MaxItems, item \in {<<"u">>, <<"a", "\n", "b", "\r">>}}

FunctionInit ==
  /\ \/ call \in UrlCalls
     \/ call \in ListCalls
  /\ file = NoFile
  /\ pc = "idle"
  /\ run = 0
  /\ scope = {}
  /\ config = [k \in Slices |-> None]
  /\ g = FALSE
  /\ current_state = EmptyDict
  /\ new_state = InitNewState(EmptyDict)
  /\ results = EmptyResults
  /\ urls_to_process = {}
  /\ processed_sitemaps = {}
  /\ newly_discovered_urls = {}
  /\ fetches = [d \in SitemapDocs |-> 0]
  /\ env = EmptyEnv
  /\ file0 = NoFile
  /\ saves = 0
  /\ assigned = {}
  /\ prev_web = EmptyDict
  /\ environ = "ok"

process_vars == <<file, pc, run, scope, config, g, current_state, new_state, results,
                  urls_to_process, processed_sitemaps, newly_discovered_urls, fetches,
                  env, file0, saves, assigned, prev_web, environ>>

CallNormalizeUrl ==
  /\ call.fn = "normalize_url" /\ ~call.returned
  /\ call' = [call EXCEPT !.returned = TRUE, !.value = normalize_url(call.url)]
  /\ UNCHANGED process_vars

CallFormatOutputList ==
  /\ call.fn = "format_output_list" /\ ~call.returned
  /\ call' = [call EXCEPT !.returned = TRUE, !.value = format_output_list(call.items)]
  /\ UNCHANGED process_vars

FunctionNext ==
  \/ CallNormalizeUrl
  \/ CallFormatOutputList

FunctionSpec == FunctionInit /\ [][FunctionNext]_vars

(***************************************************************************)
(* Properties.                                                             *)
(***************************************************************************)
\* the positions of a run, in program order
Positions == <<"load", "sitemap", "sitemap_loop", "key_pages", "assets", "repos",
               "feeds", "save", "save_write", "outputs">>
Pos(p) == CHOOSE i \in 1..Len(Positions) : Positions[i] = p
Running == pc \in ToSet(Positions)

\* the run is past the given position
Past(p) == Running /\ Pos(pc) > Pos(p)

\* the slice a run loads from the state file f when the file can be read
SliceOf(f, k) == Get(load_state(f, TRUE), k, SliceDefault(k))

\* the slice this run loaded
Loaded(k) == Get(current_state, k, SliceDefault(k))

\* save_state has returned and the file holds the document of this run
Persisted == pc = "outputs" /\ file = Complete(new_state)

\* C1: after a run, finished or killed, the state file still holds every URL
\* of the sitemap_urls slice it held before the run, and the slice is no
\* shorter.
C1_SitemapUrlsNeverForgotten ==
  pc \in {"done", "killed"} =>
    /\ ToSet(SliceOf(file0, "sitemap_urls")) \subseteq ToSet(SliceOf(file, "sitemap_urls"))
    /\ Len(SliceOf(file0, "sitemap_urls")) <= Len(SliceOf(file, "sitemap_urls"))

\* C2: the slice of a disabled checker stays, all through the run, the slice
\* that was loaded, and it is that slice in the document save_state persists.
C2_DisabledSliceUntouched ==
  \A k \in Slices :
    (Past("load") /\ ~Enabled(k)) =>
      /\ new_state[k] = Loaded(k)
      /\ Persisted => file.doc[k] = Loaded(k)

\* a disabled checker with a loaded slice that is not empty, while another
\* checker ran and changed its own slice, and the document is persisted
C2_Witness ==
  /\ Persisted
  /\ \E k \in Slices : ~Enabled(k) /\ Loaded(k) # SliceDefault(k)
  /\ \E k \in Slices : Enabled(k) /\ k \in assigned /\ new_state[k] # Loaded(k)

\* the slices kept as dicts, whose checkers return a current mapping
DictSlices == Slices \ {"sitemap_urls"}

\* C3: when the key-page, asset, repository or feed checker runs, a key of the
\* loaded slice that is not in this run's configured list is in the persisted
\* slice with the same value.
C3_UncheckedKeysKept ==
  \A k \in DictSlices :
    (Persisted /\ Enabled(k)) =>
      \A key \in DOMAIN Loaded(k) :
        key \notin ToSet(config[k]) =>
          key \in DOMAIN file.doc[k] /\ file.doc[k][key] = Loaded(k)[key]

\* C4: after check_key_pages, a descriptor whose fetch failed has in the
\* returned mapping the digest it had in the known mapping, and is not
\* reported as changed.
C4_FailedFetchKeepsDigest ==
  (Past("key_pages") /\ Enabled("page_content_hashes")) =>
    \A item \in DOMAIN env.pages :
      env.pages[item].failed =>
        /\ item \notin ToSet(results.changed_pages)
        /\ item \in DOMAIN Loaded("page_content_hashes") =>
             /\ item \in DOMAIN new_state["page_content_hashes"]
             /\ new_state["page_content_hashes"][item] = Loaded("page_content_hashes")[item]

\* the page of the descriptor was fetched and its text selected
Observed(item) == ~env.pages[item].failed /\ ~env.pages[item].raises

\* C5: after check_key_pages, a descriptor observed for the first time (no
\* digest recorded) has its digest in the returned mapping and is not reported
\* as changed.
C5_FirstObservationNotReported ==
  (Past("key_pages") /\ Enabled("page_content_hashes")) =>
    \A item \in DOMAIN env.pages :
      (Observed(item) /\ item \notin DOMAIN Loaded("page_content_hashes")) =>
        /\ item \in DOMAIN new_state["page_content_hashes"]
        /\ item \notin ToSet(results.changed_pages)

\* the repositories reported as updated
UpdatedRepos == {results.updated_repos[i].repo : i \in 1..Len(results.updated_repos)}

\* C6: after check_github_repos with a client, a repository with no entry in
\* the known mapping has its commit identifier in the returned mapping and is
\* not reported as updated.
C6_FirstRepoNotReported ==
  (Past("repos") /\ Enabled("github_repo_state") /\ g) =>
    \A repo \in DOMAIN env.repos :
      (~env.repos[repo].raises /\ repo \notin DOMAIN Loaded("github_repo_state")) =>
        /\ repo \in DOMAIN new_state["github_repo_state"]
        /\ new_state["github_repo_state"][repo] = env.repos[repo].sha
        /\ repo \notin UpdatedRepos

\* C7: at every point, a save in progress or interrupted included, the state
\* file is the complete previous document or the complete new one, never a
\* truncated or partial text.
C7_StateFileNeverPartial ==
  /\ file.kind # "truncated"
  /\ Running => file \in {file0, Complete(new_state)}

\* the checkers this run's configuration enables
EnabledSlices == {k \in Slices : Enabled(k)}

\* C8: save_state is called at most once in a run, and exactly once in a run
\* that reaches its end; the call comes after every enabled checker has
\* finished; and as long as it has not been called (the run may have been
\* killed) the state file is as it was when the run started.
C8_SavedOnceAtEnd ==
  /\ saves <= 1
  /\ saves = 0 => file = file0
  /\ pc \in {"outputs", "done"} => saves = 1
  /\ (Running /\ saves = 1) => pc \in {"save_write", "outputs"} /\ assigned = EnabledSlices
  /\ (Running /\ Pos(pc) <= Pos("save")) => saves = 0

\* a run of two checkers that has saved a new document, once
C8_Witness ==
  /\ pc = "outputs" /\ saves = 1
  /\ file = Complete(new_state) /\ file # file0
  /\ Cardinality(assigned) = 2

\* every sitemap fetch of this run failed
AllSitemapFetchesFailed ==
  /\ DOMAIN env.web # {}
  /\ \A d \in DOMAIN env.web : env.web[d].failed

\* C9 as stated: when every sitemap fetch fails, the persisted sitemap_urls
\* slice is the loaded one, element for element, and the run does not assign
\* the slice (the category is not modified or saved).
C9_FailedSitemapLeavesCategoryAlone ==
  (Past("sitemap_loop") /\ Enabled("sitemap_urls") /\ AllSitemapFetchesFailed) =>
    /\ Persisted => file.doc["sitemap_urls"] = Loaded("sitemap_urls")
    /\ "sitemap_urls" \notin assigned

\* C9 as amended: when every sitemap fetch fails, the sitemap_urls slice the
\* run builds and persists is the loaded one, element for element and in the
\* same order (the run does assign the slice and saves it with the document).
C9_FailedSitemapKeepsSlice ==
  (Past("sitemap_loop") /\ Enabled("sitemap_urls") /\ AllSitemapFetchesFailed) =>
    /\ new_state["sitemap_urls"] = Loaded("sitemap_urls")
    /\ Persisted => file.doc["sitemap_urls"] = Loaded("sitemap_urls")

\* every fetch failed in a run that had loaded two URLs or more, and the
\* document is persisted
C9_Witness ==
  /\ Persisted /\ Enabled("sitemap_urls") /\ AllSitemapFetchesFailed
  /\ Len(Loaded("sitemap_urls")) >= 2

\* the previous run finished its sitemap check and persisted its state, this
\* run loaded that state, and every sitemap document fetched answers as it
\* did in the previous run
SameSitemapsAsPreviousRun ==
  /\ prev_web # EmptyDict
  /\ file0.kind = "complete" /\ current_state = file0.doc
  /\ env.web = prev_web

\* C10: the second of two consecutive sitemap checks over the same sitemap
\* documents, the first one's state persisted, returns no new URL.
C10_SecondRunFindsNothing ==
  (Past("sitemap_loop") /\ Enabled("sitemap_urls") /\ SameSitemapsAsPreviousRun) =>
    results.new_urls = <<>>

\* a second check over the same documents after a run that discovered URLs
C10_Witness ==
  /\ Past("sitemap_loop") /\ Enabled("sitemap_urls") /\ SameSitemapsAsPreviousRun
  /\ Len(Loaded("sitemap_urls")) >= 2

\* the identifier known for a feed when the run started, None if there is none
KnownFeedId(feed_url) == Get(Loaded("feed_state"), feed_url, None)

\* the feed parsed well and has entries
HasEntries(feed_url) == ~env.feeds[feed_url].bozo /\ env.feeds[feed_url].entries # <<>>

\* the entries that precede the first entry whose identifier is K
RECURSIVE EntriesBefore(_, _)
EntriesBefore(entries, K) ==
  IF entries = <<>> \/ EntryId(Head(entries)) = K THEN <<>>
  ELSE <<Head(entries)>> \o EntriesBefore(Tail(entries), K)

\* the entries as they are reported, "title (link)"
TextsOf(entries, feed_url) == [i \in 1..Len(entries) |-> EntryText(entries[i], feed_url)]

\* the known identifier of the feed is present and is not that of its newest
\* entry
HasNewerEntries(feed_url) ==
  /\ HasEntries(feed_url)
  /\ KnownFeedId(feed_url) # None
  /\ EntryId(env.feeds[feed_url].entries[1]) # KnownFeedId(feed_url)

\* feed after feed, the entries that precede the known one, for the feeds
\* whose known identifier is present and is not that of the newest entry
RECURSIVE NewerEntries(_)
NewerEntries(feed_urls) ==
  IF feed_urls = <<>> THEN <<>>
  ELSE (IF HasNewerEntries(Head(feed_urls))
          THEN TextsOf(EntriesBefore(env.feeds[Head(feed_urls)].entries,
                                     KnownFeedId(Head(feed_urls))), Head(feed_urls))
          ELSE <<>>)
       \o NewerEntries(Tail(feed_urls))

\* C11: after check_research_feeds, the list of new entries is made, feed
\* after feed, of exactly the entries that precede the first entry whose
\* identifier is the known one, newest first, for each feed whose known
\* identifier is present and differs from that of its newest entry.
C11_ReportsEntriesBeforeKnown ==
  (Past("feeds") /\ Enabled("feed_state")) =>
    results.new_feed_entries = NewerEntries(config["feed_state"])

\* the feed [E3, E2, E1] with the identifier of E1 known reports [E3, E2]
C11_Witness ==
  /\ Past("feeds") /\ Enabled("feed_state")
  /\ env.feeds[F1].entries = <<E3, E2, E1>>
  /\ KnownFeedId(F1) = EntryId(E1)
  /\ results.new_feed_entries = <<EntryText(E3, F1), EntryText(E2, F1)>>

\* no reported entry is an entry of the feed, unless another configured feed
\* carries the same entry
NotReported(feed_url) ==
  \A i \in 1..Len(results.new_feed_entries) :
    results.new_feed_entries[i] \in ToSet(TextsOf(env.feeds[feed_url].entries, feed_url)) =>
      \E other \in DOMAIN env.feeds \ {feed_url} :
        results.new_feed_entries[i] \in ToSet(TextsOf(env.feeds[other].entries, other))

\* C12: after check_research_feeds, a feed with entries and no known
\* identifier has the identifier of its newest entry in the returned mapping,
\* and none of its entries is reported as new.
C12_FirstTimeFeedNotReported ==
  (Past("feeds") /\ Enabled("feed_state")) =>
    \A feed_url \in DOMAIN env.feeds :
      (HasEntries(feed_url) /\ KnownFeedId(feed_url) = None) =>
        /\ feed_url \in DOMAIN new_state["feed_state"]
        /\ new_state["feed_state"][feed_url] = EntryId(env.feeds[feed_url].entries[1])
        /\ NotReported(feed_url)

\* a feed of three entries tracked for the first time: the baseline is the
\* identifier of the newest entry (its link, for want of an id)
C12_Witness ==
  /\ Past("feeds") /\ Enabled("feed_state")
  /\ HasEntries(F1) /\ KnownFeedId(F1) = None
  /\ env.feeds[F1].entries = <<E3, E2, E1>>
  /\ new_state["feed_state"][F1] = E3.link
  /\ results.new_feed_entries = <<>>

\* C13: after check_github_repos in which the lookup of a repository failed,
\* every repository whose lookup succeeded has its commit identifier in the
\* returned mapping and is reported as updated exactly when that identifier
\* differs from the known one.
C13_RepoFailureIsolated ==
  (Past("repos") /\ Enabled("github_repo_state") /\ g
     /\ \E failed \in DOMAIN env.repos : env.repos[failed].raises) =>
    \A repo \in DOMAIN env.repos :
      ~env.repos[repo].raises =>
        /\ repo \in DOMAIN new_state["github_repo_state"]
        /\ new_state["github_repo_state"][repo] = env.repos[repo].sha
        /\ repo \in UpdatedRepos
             <=> env.repos[repo].sha # Get(Loaded("github_repo_state"), repo, None)

\* the lookup of the first repository failed and the second one, looked up
\* after it, is recorded and reported
C13_Witness ==
  /\ Past("repos") /\ g /\ config["github_repo_state"] = <<R1, R2>>
  /\ env.repos[R1].raises /\ ~env.repos[R2].raises
  /\ new_state["github_repo_state"] = Put(EmptyDict, R2, Sha1)
  /\ UpdatedRepos = {R2}

\* C14: a run started without MATRIX_CONFIG_JSON or without STATE_FILE stops
\* with a fatal error: it loads no state, runs no checker, fetches nothing,
\* never calls save_state and leaves the state file as it was.
C14_MissingConfigurationIsFatal ==
  environ # "ok" =>
    /\ pc = "fatal"
    /\ current_state = EmptyDict /\ new_state = InitNewState(EmptyDict)
    /\ assigned = {} /\ results = EmptyResults /\ env = EmptyEnv
    /\ saves = 0 /\ file = file0

\* a run without its configuration, started over the state file that an
\* earlier run has written
C14_Witness ==
  /\ environ # "ok" /\ pc = "fatal"
  /\ file.kind = "complete" /\ file.doc # InitNewState(EmptyDict)

\* the number of items of a formatted list: one more than its separators
OutputItems(formatted) ==
  IF formatted = <<>> THEN 0
  ELSE 1 + Cardinality({i \in 1..Len(formatted) : formatted[i] = "\\n"})

\* the last item of a formatted list: what follows its last separator
LastItem(formatted) ==
  SubSeq(formatted,
         1 + Len(formatted)
           - Cardinality({i \in 1..Len(formatted) :
                            \A j \in i..Len(formatted) : formatted[j] # "\\n"}),
         Len(formatted))

\* C15: a list output holds at most MAX_OUTPUT_LIST_ITEMS items, and ends
\* with a truncation suffix (an item that is none of the result list's own)
\* when the result list has more items than that.
C15_OutputListsCapped ==
  (call.fn = "format_output_list" /\ call.returned) =>
    /\ OutputItems(call.value) <= MAX_OUTPUT_LIST_ITEMS
    /\ Len(call.items) > MAX_OUTPUT_LIST_ITEMS =>
         LastItem(call.value) # CleanItem(call.items[Len(call.items)])

\* a path without its trailing slash, if it has one and is not "/"
StripOneSlash(path) ==
  IF path # <<>> /\ path # <<"/">> /\ path[Len(path)] = "/"
    THEN SubSeq(path, 1, Len(path) - 1) ELSE path

\* C18: normalize_url returns the scheme, "://", the host and the path, the
\* path without one trailing slash unless it is exactly "/", and without the
\* query string and the fragment.
C18_NormalizeStripsOneSlash ==
  (call.fn = "normalize_url" /\ call.returned) =>
    call.value = SchemeAndHost \o StripOneSlash(call.path)

\* C16: check_sitemap terminates: once it has started, the worklist is
\* eventually empty, whatever the documents reference (themselves, one
\* another) and in whatever order the worklist is popped.
C16_SitemapCheckTerminates == (pc = "sitemap_loop") ~> (urls_to_process = {})

\* the check has emptied its worklist over two indexes that reference each
\* other, one of which also references itself
C16_Witness ==
  /\ pc = "sitemap_loop" /\ urls_to_process = {}
  /\ processed_sitemaps = SitemapDocs
  /\ ~env.web[S0].failed /\ ~env.web[S2].failed
  /\ S0 \in ToSet(env.web[S0].sitemaps)
  /\ S2 \in {Strip(l) : l \in ToSet(env.web[S0].sitemaps)}
  /\ S0 \in ToSet(env.web[S2].sitemaps)

\* C19: during one call of check_sitemap no sitemap document is fetched more
\* than once.
C19_EachSitemapFetchedOnce == \A d \in SitemapDocs : fetches[d] <= 1

\* every document was fetched once although S1 is referenced by two indexes
\* and S0 by itself and by S2, and the worklist was popped to the end
C19_Witness ==
  /\ pc = "sitemap_loop" /\ urls_to_process = {}
  /\ \A d \in SitemapDocs : fetches[d] = 1
  /\ ~env.web[S0].failed /\ ~env.web[S2].failed
  /\ S1 \in ToSet(env.web[S0].sitemaps) /\ S1 \in ToSet(env.web[S2].sitemaps)
  /\ S0 \in ToSet(env.web[S0].sitemaps) /\ S0 \in ToSet(env.web[S2].sitemaps)

\* the digest of the text selected on the page of the descriptor
CurrentDigest(item) ==
  get_content_hash(IF env.pages[item].matched THEN env.pages[item].text ELSE "")

\* the number of times x is in the list l
Occurrences(l, x) == Cardinality({i \in 1..Len(l) : l[i] = x})

\* the descriptor has a recorded digest and its page was fetched and selected
Recheck(item) == Observed(item) /\ item \in DOMAIN Loaded("page_content_hashes")

\* C17 as stated: after check_key_pages, a descriptor with a recorded digest
\* whose page was fetched is in the list of changed pages exactly once when
\* its current digest differs from the recorded one and not at all when they
\* are equal, and the returned mapping holds its current digest.
C17_ChangedPageReportedOnce ==
  (Past("key_pages") /\ Enabled("page_content_hashes")) =>
    \A item \in DOMAIN env.pages :
      Recheck(item) =>
        /\ new_state["page_content_hashes"][item] = CurrentDigest(item)
        /\ Occurrences(results.changed_pages, item)
             = IF CurrentDigest(item) # Loaded("page_content_hashes")[item] THEN 1 ELSE 0

\* C17 as amended: the descriptor is in the list of changed pages once for
\* each time the configuration lists it (once, for a list without
\* duplicates) when its current digest differs from the recorded one and not
\* at all when they are equal, and the returned mapping holds its current
\* digest.
C17_ChangedPageReportedPerListing ==
  (Past("key_pages") /\ Enabled("page_content_hashes")) =>
    \A item \in DOMAIN env.pages :
      Recheck(item) =>
        /\ new_state["page_content_hashes"][item] = CurrentDigest(item)
        /\ Occurrences(results.changed_pages, item)
             = IF CurrentDigest(item) # Loaded("page_content_hashes")[item]
                 THEN Occurrences(config["page_content_hashes"], item) ELSE 0

\* a descriptor listed once whose selected text has changed since the digest
\* was recorded, reported once, next to one whose text has not changed
C17_Witness ==
  /\ Past("key_pages") /\ config["page_content_hashes"] = <<K2, K1>>
  /\ Recheck(K1) /\ Recheck(K2)
  /\ CurrentDigest(K1) # Loaded("page_content_hashes")[K1]
  /\ CurrentDigest(K2) = Loaded("page_content_hashes")[K2]
  /\ results.changed_pages = <<K1>>

\* C20: after check_research_feeds, a feed that failed to parse has in the
\* returned mapping the identifier the known mapping holds for it (the
\* absent-marker only if none was known), and none of its entries is reported.
C20_MalformedFeedKeepsIdentifier ==
  (Past("feeds") /\ Enabled("feed_state")) =>
    \A feed_url \in DOMAIN env.feeds :
      env.feeds[feed_url].bozo =>
        /\ feed_url \in DOMAIN new_state["feed_state"]
        /\ new_state["feed_state"][feed_url] = KnownFeedId(feed_url)
        /\ NotReported(feed_url)

\* a malformed feed that carries an entry newer than the known one
C20_Witness ==
  /\ Past("feeds") /\ Enabled("feed_state")
  /\ env.feeds[F1].bozo /\ env.feeds[F1].entries = <<E2, E1>>
  /\ KnownFeedId(F1) = EntryId(E1)
  /\ new_state["feed_state"][F1] = EntryId(E1)
  /\ results.new_feed_entries = <<>>

\* the pages reported in the list of changed assets
ChangedAssetPages == {results.changed_assets[i].page : i \in 1..Len(results.changed_assets)}

\* C21: after check_assets, a page with no entry in the known asset mapping
\* has an entry in the returned mapping and is not reported in the list of
\* changed assets, whatever assets it has.
C21_FirstAssetPageNotReported ==
  (Past("assets") /\ Enabled("asset_map")) =>
    \A page_url \in DOMAIN env.asset_pages :
      page_url \notin DOMAIN Loaded("asset_map") =>
        /\ page_url \in DOMAIN new_state["asset_map"]
        /\ page_url \notin ChangedAssetPages

\* the document answered and is an index: it has <sitemap> elements
IsIndex(d) == d \in DOMAIN env.web /\ ~env.web[d].failed /\ env.web[d].sitemaps # <<>>

\* the document answered and is a leaf
IsLeaf(d) == d \in DOMAIN env.web /\ ~env.web[d].failed /\ env.web[d].sitemaps = <<>>

\* the documents that the index documents of D point to, with D
WithTargets(D) ==
  D \cup UNION {{Strip(l) : l \in ToSet(Handled(env.web[d].sitemaps, env.web[d].handled))} :
                 d \in {x \in D : IsIndex(x)}}

\* the documents reachable from those of D through fetched index documents
RECURSIVE ReachableFrom(_)
ReachableFrom(D) == IF WithTargets(D) = D THEN D ELSE ReachableFrom(WithTargets(D))

\* the normalized page locations of the reachable leaf documents, all of them
AllReachableLocations ==
  UNION {{NormalizedLoc[l] : l \in ToSet(env.web[d].urls)} :
           d \in {x \in ReachableFrom({config["sitemap_urls"]}) : IsLeaf(x)}}

ReachableLocations ==
  UNION {{NormalizedLoc[l] : l \in ToSet(Handled(env.web[d].urls, env.web[d].handled))} :
           d \in {x \in ReachableFrom({config["sitemap_urls"]}) : IsLeaf(x)}}

====
